---- MODULE Spec2Model ----
(***************************************************************************)
(* A model of the an-rope persistent rope: the Rope facade of              *)
(* src/src/lib.rs over the Node/NodeLink tree of the `internals` module.   *)
(*                                                                         *)
(* Text is a sequence of bytes.  A character is one or two bytes: the      *)
(* two-byte character is a lead byte followed by a continuation byte, so   *)
(* that an offset can fall inside a character, as in UTF-8.                *)
(* Indices are byte offsets (the byte metric).                             *)
(*                                                                         *)
(* A node is an immutable value: <<"E">> (Empty), <<"L", text>> (Leaf) or  *)
(* <<"B", left, right, weight, height>> (Branch).  NodeLink, the shared    *)
(* handle to an immutable node, is the node value itself.                  *)
(***************************************************************************)
EXTENDS Integers, Sequences, FiniteSets, TLC

VARIABLES ropes, snap, out, chain, left_edits, cap, pc

vars == <<ropes, snap, out, chain, left_edits, cap, pc>>

----------------------------------------------------------------------------
(* Bounds of the model *)

\* number of in-place edits in one run
MaxSteps == 2
\* longest rope an edit may build, in bytes
MaxLen == 4
\* number of edits in one run of the balance specification
MaxBalSteps == 4
\* longest rope of the balance specification, in bytes
MaxBalLen == 5
\* longest sequence handed to collect()
MaxItems == 5
\* longest sequence of strings, empty ones included, handed to collect()
MaxFrags == 3
\* largest combined length of two adjacent leaves the balancer coalesces
MaxCoalesce == 2
\* number of edits in one run of the iterator specification
MaxIterSteps == 4
\* longest rope of the iterator specification, in bytes
MaxIterLen == 5

----------------------------------------------------------------------------
(* Bytes, characters and strings *)

ByteA == "a"
ByteLead == "e1"
ByteCont == "e2"
\* the line feed: a line ending, and white space
ByteNl == "nl"

CharA == <<ByteA>>
CharE == <<ByteLead, ByteCont>>
Chars == {CharA, CharE}
CharNl == <<ByteNl>>

Min(a, b) == IF a < b THEN a ELSE b
Max(a, b) == IF a < b THEN b ELSE a

\* the strings handed to constructors and insertions
Strs == {<<>>, CharA, CharE, CharA \o CharA}

RECURSIVE SeqsUpTo(_, _)
\* the sequences of at most n elements of S
SeqsUpTo(S, n) ==
    IF n = 0 THEN {<<>>}
    ELSE LET p == SeqsUpTo(S, n - 1)
         IN  p \cup {Append(q, e) : q \in {q \in p : Len(q) = n - 1}, e \in S}

\* str::is_char_boundary: offset i of s does not fall inside a character
is_char_boundary(s, i) ==
    \/ i = 0
    \/ i = Len(s)
    \/ i < Len(s) /\ s[i + 1] # ByteCont

RECURSIVE Flatten(_)
\* the concatenation of a sequence of strings
Flatten(ss) == IF ss = <<>> THEN <<>> ELSE Head(ss) \o Flatten(Tail(ss))

RECURSIVE str_char_indices_from(_, _)
\* the (byte offset, character) pairs of s from offset k on
str_char_indices_from(s, k) ==
    IF k >= Len(s) THEN <<>>
    ELSE LET n == IF s[k + 1] = ByteLead THEN 2 ELSE 1
             e == Min(k + n, Len(s))
         IN  <<<<k, SubSeq(s, k + 1, e)>>>> \o str_char_indices_from(s, e)

\* str::char_indices: each character of s with its byte offset in s
str_char_indices(s) == str_char_indices_from(s, 0)

\* the metrics: bytes, characters (Unicode scalars) and lines (line endings)
Metrics == {"bytes", "chars", "lines"}

\* Measured<M> for str: the measure of a string under metric m
str_measure(s, m) ==
    IF m = "bytes" THEN Len(s)
    ELSE IF m = "chars" THEN Cardinality({k \in 1..Len(s) : s[k] # ByteCont})
    ELSE Cardinality({k \in 1..Len(s) : s[k] = ByteNl})

\* char::is_line_ending and char::is_whitespace over the characters of the
\* model: the line feed is both
is_line_ending(c) == c = CharNl
is_whitespace(c) == c = CharNl

\* str::chars
str_chars(s) ==
    LET cis == str_char_indices(s) IN [k \in 1..Len(cis) |-> cis[k][2]]

RECURSIVE split_whitespace_from(_, _, _)
\* the words of s from character k on, cur being the word under way
split_whitespace_from(cs, k, cur) ==
    LET done == IF cur = <<>> THEN <<>> ELSE <<cur>>
    IN  IF k > Len(cs) THEN done
        ELSE IF is_whitespace(cs[k])
             THEN done \o split_whitespace_from(cs, k + 1, <<>>)
        ELSE split_whitespace_from(cs, k + 1, cur \o cs[k])

\* str::split_whitespace: the maximal runs of characters that are not white
\* space
str_split_whitespace(s) == split_whitespace_from(str_chars(s), 1, <<>>)

\* usize::MAX, standing above every offset of a rope
UsizeMax == 2147483647

\* a - b on usize in a build without overflow checks
wrapping_sub(a, b) == IF a >= b THEN a - b ELSE UsizeMax - (b - a) + 1

RECURSIVE fibonacci(_)
fibonacci(n) == IF n = 0 THEN 0 ELSE IF n = 1 THEN 1
                ELSE fibonacci(n - 1) + fibonacci(n - 2)

----------------------------------------------------------------------------
(* Node / NodeLink *)

empty == <<"E">>

is_leaf(n) == n[1] = "L"
is_branch(n) == n[1] = "B"
leaf_text(n) == n[2]
left(n) == n[2]
right(n) == n[3]
weight(n) == n[4]
height(n) == n[5]

\* Node::depth: the cached height of a branch, 0 for a leaf or Empty
depth(n) == IF is_branch(n) THEN height(n) ELSE 0

RECURSIVE node_len(_)
\* Node::len: the weight of a branch plus the length of its right subtree
node_len(n) ==
    IF n = empty THEN 0
    ELSE IF is_leaf(n) THEN Len(leaf_text(n))
    ELSE weight(n) + node_len(right(n))

\* the cached weight of a branch under metric m
weight_of(n, m) == IF m = "bytes" THEN weight(n) ELSE n[6][m]

RECURSIVE node_measure(_, _)
\* Measured<M> for Node: the weight of a branch plus the measure of its right
\* subtree
node_measure(n, m) ==
    IF n = empty THEN 0
    ELSE IF is_leaf(n) THEN str_measure(leaf_text(n), m)
    ELSE weight_of(n, m) + node_measure(right(n), m)

\* new_leaf that wraps the empty string in a Leaf
new_leaf_kept(s) == <<"L", s>>

\* Node::new_leaf: an empty string collapses to Empty
new_leaf(s) == IF Len(s) = 0 THEN empty ELSE <<"L", s>>

\* new_branch that takes the weight of the left child for the weight of the
\* branch
new_branch_stale(l, r) ==
    IF l = empty THEN r
    ELSE IF r = empty THEN l
    ELSE <<"B", l, r,
           IF is_branch(l) THEN weight(l) ELSE node_len(l),
           1 + Max(depth(l), depth(r)),
           [m \in {"chars", "lines"} |->
               IF is_branch(l) THEN weight_of(l, m) ELSE node_measure(l, m)]>>

\* Node::new_branch: an Empty side is elided; the weight under each metric is
\* the measure of the left side
new_branch(l, r) ==
    IF l = empty THEN r
    ELSE IF r = empty THEN l
    ELSE <<"B", l, r, node_len(l), 1 + Max(depth(l), depth(r)),
           [m \in {"chars", "lines"} |-> node_measure(l, m)]>>

\* NodeLink + NodeLink
concatenate(a, b) == new_branch(a, b)

RECURSIVE strings(_)
\* Node::strings: the leaf fragments, left to right
strings(n) ==
    IF n = empty THEN <<>>
    ELSE IF is_leaf(n) THEN <<leaf_text(n)>>
    ELSE strings(left(n)) \o strings(right(n))

\* Node::bytes: strings().flat_map(str::bytes)
node_bytes(n) == Flatten(strings(n))

\* Node::char_indices: strings().flat_map(str::char_indices)
node_char_indices(n) ==
    LET ss == strings(n)
    IN  Flatten([k \in 1..Len(ss) |-> str_char_indices(ss[k])])

RECURSIVE node_index(_, _)
\* Node::index: descend left if i < weight, else right with i - weight
node_index(n, i) ==
    IF n = empty THEN "out of bounds"
    ELSE IF is_leaf(n) THEN
        IF i < Len(leaf_text(n)) THEN leaf_text(n)[i + 1] ELSE "out of bounds"
    ELSE IF i < weight(n) THEN node_index(left(n), i)
    ELSE node_index(right(n), i - weight(n))

\* &s[a..b] of a string: fails past the end and inside a character
str_slice(s, a, b) ==
    IF a > b \/ b > Len(s) THEN [fault |-> "bounds", text |-> <<>>]
    ELSE IF ~is_char_boundary(s, a) \/ ~is_char_boundary(s, b)
         THEN [fault |-> "boundary", text |-> <<>>]
    ELSE [fault |-> "none", text |-> SubSeq(s, a + 1, b)]

RECURSIVE len_uncached(_)
\* Node<String>::len: the lengths of both subtrees, summed at each call
len_uncached(n) ==
    IF n = empty THEN 0
    ELSE IF is_leaf(n) THEN Len(leaf_text(n))
    ELSE len_uncached(left(n)) + len_uncached(right(n))

RECURSIVE node_string_index(_, _)
\* ops::Index<usize> for Node<String>: len is the length of the whole node
node_string_index(n, i) ==
    LET l == len_uncached(n)
    IN  IF n = empty THEN [fault |-> "bounds", text |-> <<>>]
        ELSE IF is_leaf(n) THEN str_slice(leaf_text(n), i, i + 1)
        ELSE IF l < i THEN node_string_index(right(n), i - l)
        ELSE node_string_index(left(n), i)

SplitOk(l, r) == [fault |-> "none", l |-> l, r |-> r]
SplitFault(f) == [fault |-> f, l |-> empty, r |-> empty]

RECURSIVE node_split_raw(_, _)
\* split that cuts a leaf at any offset, also inside a character
node_split_raw(n, i) ==
    IF n = empty THEN
        IF i = 0 THEN SplitOk(empty, empty) ELSE SplitFault("bounds")
    ELSE IF is_leaf(n) THEN
        LET s == leaf_text(n)
        IN  IF i > Len(s) THEN SplitFault("bounds")
            ELSE SplitOk(new_leaf(SubSeq(s, 1, i)),
                         new_leaf(SubSeq(s, i + 1, Len(s))))
    ELSE IF i < weight(n) THEN
        LET sp == node_split_raw(left(n), i)
        IN  IF sp.fault # "none" THEN sp
            ELSE SplitOk(sp.l, new_branch(sp.r, right(n)))
    ELSE IF i = weight(n) THEN SplitOk(left(n), right(n))
    ELSE
        LET sp == node_split_raw(right(n), i - weight(n))
        IN  IF sp.fault # "none" THEN sp
            ELSE SplitOk(new_branch(left(n), sp.l), sp.r)

RECURSIVE node_split(_, _)
\* Node::split at byte offset i
node_split(n, i) ==
    IF n = empty THEN
        IF i = 0 THEN SplitOk(empty, empty) ELSE SplitFault("bounds")
    ELSE IF is_leaf(n) THEN
        LET s == leaf_text(n)
        IN  IF i > Len(s) THEN SplitFault("bounds")
            ELSE IF ~is_char_boundary(s, i) THEN SplitFault("boundary")
            ELSE SplitOk(new_leaf(SubSeq(s, 1, i)),
                         new_leaf(SubSeq(s, i + 1, Len(s))))
    ELSE IF i < weight(n) THEN
        LET sp == node_split(left(n), i)
        IN  IF sp.fault # "none" THEN sp
            ELSE SplitOk(sp.l, new_branch(sp.r, right(n)))
    ELSE IF i = weight(n) THEN SplitOk(left(n), right(n))
    ELSE
        LET sp == node_split(right(n), i - weight(n))
        IN  IF sp.fault # "none" THEN sp
            ELSE SplitOk(new_branch(left(n), sp.l), sp.r)

RECURSIVE node_is_balanced(_)
\* Node::is_balanced: every subtree of depth d holds at least Fib(d+2)-1 bytes
node_is_balanced(n) ==
    /\ node_len(n) >= fibonacci(depth(n) + 2) - 1
    /\ is_branch(n) => node_is_balanced(left(n)) /\ node_is_balanced(right(n))

RECURSIVE merge_first(_)
\* a round of the rebuild that merges the first two nodes only
merge_first(ns) ==
    IF Len(ns) < 2 THEN ns
    ELSE <<new_branch(ns[1], ns[2])>> \o SubSeq(ns, 3, Len(ns))

RECURSIVE merge_pairs(_)
\* one round of the bottom-up rebuild: adjacent nodes are merged in pairs
merge_pairs(ns) ==
    IF Len(ns) < 2 THEN ns
    ELSE <<new_branch(ns[1], ns[2])>> \o merge_pairs(SubSeq(ns, 3, Len(ns)))

RECURSIVE rebuild(_)
\* the minimum-height tree over a sequence of leaves
rebuild(ns) ==
    IF ns = <<>> THEN empty
    ELSE IF Len(ns) = 1 THEN ns[1]
    ELSE rebuild(merge_pairs(ns))

RECURSIVE coalesce(_, _)
\* adjacent fragments of combined length at most t are joined into one, from
\* the left; t = 0 joins nothing
coalesce(ss, t) ==
    IF Len(ss) < 2 THEN ss
    ELSE IF Len(ss[1]) + Len(ss[2]) <= t
         THEN coalesce(<<ss[1] \o ss[2]>> \o SubSeq(ss, 3, Len(ss)), t)
    ELSE <<ss[1]>> \o coalesce(Tail(ss), t)

\* the balancer's rebuild: the leaves are collected left to right, coalesced
\* under threshold t, and merged bottom-up
node_rebuild(n, t) ==
    LET ss == coalesce(strings(n), t)
    IN  rebuild([k \in 1..Len(ss) |-> new_leaf(ss[k])])

\* NodeLink::rebalance: a balanced tree is kept, any other is rebuilt
node_rebalance(n) ==
    IF node_is_balanced(n) THEN n ELSE node_rebuild(n, 0)

----------------------------------------------------------------------------
(* Rope: the facade of src/src/lib.rs *)

\* Rope::from whose rebuild lays the leaves out in reverse order
RopeFromReversed(n) ==
    IF node_is_balanced(n) THEN [root |-> n]
    ELSE LET ss == strings(n)
         IN  [root |-> rebuild([k \in 1..Len(ss) |->
                                   new_leaf(ss[Len(ss) + 1 - k])])]

\* Rope::from that keeps the node as it is given
RopeFromUnbalanced(n) == [root |-> n]

\* Rope::from: whatever becomes a NodeLink is rebalanced into the root
RopeFrom(n) == [root |-> node_rebalance(n)]

\* Rope::new
RopeNew == RopeFrom(empty)

\* Rope::from(String), Rope::from(&str)
RopeFromStr(s) == RopeFrom(new_leaf(s))

\* #[derive(Clone)]: the clone holds the same root
clone(self) == [root |-> self.root]

len(self) == node_len(self.root)

is_empty(self) == len(self) = 0

\* Measured<M>::measure for the byte metric
measure(self) == node_len(self.root)

\* Rope::bytes
bytes(self) == node_bytes(self.root)

\* Rope::char_indices
char_indices(self) == node_char_indices(self.root)

\* str_iters! for Node: the iterator of str is flat-mapped over the leaves
node_chars(n) ==
    LET ss == strings(n) IN Flatten([k \in 1..Len(ss) |-> str_chars(ss[k])])

node_split_whitespace(n) ==
    LET ss == strings(n)
    IN  Flatten([k \in 1..Len(ss) |-> str_split_whitespace(ss[k])])

\* Rope::chars
chars(self) == node_chars(self.root)

\* Rope::split_whitespace
split_whitespace(self) == node_split_whitespace(self.root)

\* ops::Index<usize> for Rope: &self.root[i]
rope_index(self, i) == node_string_index(self.root, i)

\* The outcome of a call: the fault it ended with ("none" when it returned),
\* the receiver after the call, and the rope or ropes it returned.
Ok(self, res) == [fault |-> "none", self |-> self, res |-> res, res2 |-> RopeNew]
Ok2(self, res, res2) == [fault |-> "none", self |-> self, res |-> res, res2 |-> res2]
Fault(f, self) == [fault |-> f, self |-> self, res |-> RopeNew, res2 |-> RopeNew]

\* append that stores the result in the receiver
append_in_place(self, other) ==
    IF ~is_empty(other)
    THEN LET new == RopeFrom(concatenate(self.root, other.root))
         IN  Ok(new, new)
    ELSE Ok(self, clone(self))

\* Rope::append
append(self, other) ==
    IF ~is_empty(other)
    THEN Ok(self, RopeFrom(concatenate(self.root, other.root)))
    ELSE Ok(self, clone(self))

\* prepend that puts the other rope after the receiver
prepend_after(self, other) ==
    IF ~is_empty(other)
    THEN Ok(self, RopeFrom(concatenate(self.root, other.root)))
    ELSE Ok(self, clone(self))

\* Rope::prepend
prepend(self, other) ==
    IF ~is_empty(other)
    THEN Ok(self, RopeFrom(concatenate(other.root, self.root)))
    ELSE Ok(self, clone(self))

\* insert_rope that does not test the inserted rope for emptiness
insert_rope_unguarded(self, index, rope) ==
    IF index = 0 THEN prepend(self, rope)
    ELSE IF index = measure(self) THEN append(self, rope)
    ELSE LET sp == node_split(self.root, index)
         IN  IF sp.fault # "none" THEN Fault(sp.fault, self)
             ELSE Ok(self, RopeFrom(concatenate(concatenate(sp.l, rope.root),
                                                sp.r)))

\* insert_rope that appends when the index is past the end
insert_rope_clamped(self, index, rope) ==
    IF ~is_empty(rope) THEN
        IF index = 0 THEN prepend(self, rope)
        ELSE IF index >= measure(self) THEN append(self, rope)
        ELSE LET sp == node_split(self.root, index)
             IN  IF sp.fault # "none" THEN Fault(sp.fault, self)
                 ELSE Ok(self, RopeFrom(concatenate(concatenate(sp.l, rope.root),
                                                    sp.r)))
    ELSE Ok(self, clone(self))

\* insert_rope that puts the inserted rope after both halves
insert_rope_misplaced(self, index, rope) ==
    IF ~is_empty(rope) THEN
        IF index = 0 THEN prepend(self, rope)
        ELSE IF index = measure(self) THEN append(self, rope)
        ELSE LET sp == node_split(self.root, index)
             IN  IF sp.fault # "none" THEN Fault(sp.fault, self)
                 ELSE Ok(self, RopeFrom(concatenate(concatenate(sp.l, sp.r),
                                                    rope.root)))
    ELSE Ok(self, clone(self))

\* Rope::insert_rope
insert_rope(self, index, rope) ==
    IF ~is_empty(rope) THEN
        IF index = 0 THEN prepend(self, rope)
        ELSE IF index = measure(self) THEN append(self, rope)
        ELSE LET sp == node_split(self.root, index)
             IN  IF sp.fault # "none" THEN Fault(sp.fault, self)
                 ELSE Ok(self, RopeFrom(concatenate(concatenate(sp.l, rope.root),
                                                    sp.r)))
    ELSE Ok(self, clone(self))

\* insert that rejects the index at the end of the rope
insert_strict(self, index, ch) ==
    IF ~(index < measure(self)) THEN Fault("bounds", self)
    ELSE insert_rope(self, index, RopeFromStr(ch))

\* Rope::insert: ch is the byte sequence of one character
insert(self, index, ch) ==
    IF ~(index <= measure(self)) THEN Fault("bounds", self)
    ELSE insert_rope(self, index, RopeFromStr(ch))

\* Rope::insert_str
insert_str(self, index, s) ==
    IF ~(index <= measure(self)) THEN Fault("bounds", self)
    ELSE insert_rope(self, index, RopeFromStr(s))

\* delete that cuts the range down to the end of the rope
delete_clamped(self, start, end, unstable) ==
    IF unstable /\ ~(start <= end) THEN Fault("order", self)
    ELSE LET sp1 == node_split(self.root, start)
         IN  IF sp1.fault # "none" THEN Fault(sp1.fault, self)
             ELSE IF end < start THEN Fault("overflow", self)
             ELSE LET sp2 == node_split(sp1.r, Min(end, measure(self)) - start)
                  IN  IF sp2.fault # "none" THEN Fault(sp2.fault, self)
                      ELSE Ok(self, RopeFrom(new_branch(sp1.l, sp2.r)))

\* delete that splits the remainder at end, not at end - start
delete_from_end(self, start, end, unstable) ==
    IF unstable /\ ~(start <= end) THEN Fault("order", self)
    ELSE LET sp1 == node_split(self.root, start)
         IN  IF sp1.fault # "none" THEN Fault(sp1.fault, self)
             ELSE IF end < start THEN Fault("overflow", self)
             ELSE LET sp2 == node_split(sp1.r, end)
                  IN  IF sp2.fault # "none" THEN Fault(sp2.fault, self)
                      ELSE Ok(self, RopeFrom(new_branch(sp1.l, sp2.r)))

\* delete that joins the two kept parts in the wrong order
delete_swapped(self, start, end, unstable) ==
    IF unstable /\ ~(start <= end) THEN Fault("order", self)
    ELSE LET sp1 == node_split(self.root, start)
         IN  IF sp1.fault # "none" THEN Fault(sp1.fault, self)
             ELSE IF end < start THEN Fault("overflow", self)
             ELSE LET sp2 == node_split(sp1.r, end - start)
                  IN  IF sp2.fault # "none" THEN Fault(sp2.fault, self)
                      ELSE Ok(self, RopeFrom(new_branch(sp2.r, sp1.l)))

\* Rope::delete.  unstable: the build with the RangeArgument variant, which
\* asserts start <= end; the other build subtracts without a check and the
\* usize subtraction overflows.
delete(self, start, end, unstable) ==
    IF unstable /\ ~(start <= end) THEN Fault("order", self)
    ELSE LET sp1 == node_split(self.root, start)
         IN  IF sp1.fault # "none" THEN Fault(sp1.fault, self)
             ELSE IF end < start THEN Fault("overflow", self)
             ELSE LET sp2 == node_split(sp1.r, end - start)
                  IN  IF sp2.fault # "none" THEN Fault(sp2.fault, self)
                      ELSE Ok(self, RopeFrom(new_branch(sp1.l, sp2.r)))

\* split that copies the text of each half into a fresh leaf
split_copied(self, index) ==
    IF ~(index <= measure(self)) THEN Fault("bounds", self)
    ELSE LET sp == node_split(self.root, index)
         IN  IF sp.fault # "none" THEN Fault(sp.fault, self)
             ELSE Ok2(self, RopeFrom(new_leaf(node_bytes(sp.l))),
                      RopeFrom(new_leaf(node_bytes(sp.r))))

\* split that returns the two halves in the wrong order
split_swapped(self, index) ==
    IF ~(index <= measure(self)) THEN Fault("bounds", self)
    ELSE LET sp == node_split(self.root, index)
         IN  IF sp.fault # "none" THEN Fault(sp.fault, self)
             ELSE Ok2(self, RopeFrom(sp.r), RopeFrom(sp.l))

\* Rope::split
split(self, index) ==
    IF ~(index <= measure(self)) THEN Fault("bounds", self)
    ELSE LET sp == node_split(self.root, index)
         IN  IF sp.fault # "none" THEN Fault(sp.fault, self)
             ELSE Ok2(self, RopeFrom(sp.l), RopeFrom(sp.r))

\* Rope::is_balanced
is_balanced(self) == node_is_balanced(self.root)

\* Rope::rebalance: both arms of the test leave the rope as it is
rebalance(self) == IF is_balanced(self) THEN self ELSE self

\* Rope::bytes_eq: zip stops at the shorter of the two byte streams
bytes_eq(self, other) ==
    LET a == bytes(self)
    IN  \A k \in 1..Min(Len(a), Len(other)) : a[k] = other[k]

\* equality that compares the zipped bytes without comparing the lengths
eq_bytes_only(self, other) == bytes_eq(self, bytes(other))

\* PartialEq for Rope
eq(self, other) ==
    IF len(self) = len(other) THEN bytes_eq(self, bytes(other)) ELSE FALSE

\* the bytes a slice reads: offset k of the slice is offset start + k of the
\* backing node, found by descent
slice_bytes(node, start, end) ==
    [k \in 1..(end - start) |-> node_index(node, start + k - 1)]

\* RopeSlice::new(node, start..end): a view of the bytes start..end of node
RopeSliceNew(node, start, end) ==
    LET text == node_bytes(node)
    IN  IF start > end THEN [fault |-> "order", text |-> <<>>]
        ELSE IF end > Len(text) THEN [fault |-> "bounds", text |-> <<>>]
        ELSE IF ~is_char_boundary(text, start) \/ ~is_char_boundary(text, end)
             THEN [fault |-> "boundary", text |-> <<>>]
        ELSE [fault |-> "none", text |-> slice_bytes(node, start, end)]

\* RopeSlice::char_indices: offsets are relative to the start of the slice
slice_char_indices(sl) == str_char_indices(sl.text)

\* slice that takes the end of the range as inclusive
slice_inclusive(self, start, end) == RopeSliceNew(self.root, start, end + 1)

\* slice that cuts the range down to the end of the rope
slice_clamped(self, start, end) ==
    RopeSliceNew(self.root, Min(start, len(self)), Min(end, len(self)))

\* Rope::slice
slice(self, start, end) == RopeSliceNew(self.root, start, end)

\* the filter_map of Rope::lines: the offset of each line ending, and one
\* past the offset of a character that starts at last_idx
line_ends(cis, last_idx) ==
    LET keep == SelectSeq(cis, LAMBDA p : is_line_ending(p[2]) \/ p[1] = last_idx)
    IN  [k \in 1..Len(keep) |->
            IF is_line_ending(keep[k][2]) THEN keep[k][1] ELSE keep[k][1] + 1]

RECURSIVE lines_scan(_, _, _)
\* the scan of Rope::lines: the slice from the end of the previous line to
\* each offset in turn
lines_scan(self, ends, l) ==
    IF ends = <<>> THEN [fault |-> "none", items |-> <<>>]
    ELSE LET i == Head(ends)
             sl == slice(self, l, i)
         IN  IF sl.fault # "none" THEN [fault |-> sl.fault, items |-> <<>>]
             ELSE LET rest == lines_scan(self, Tail(ends), i + 1)
                  IN  [fault |-> rest.fault,
                       items |-> IF rest.fault = "none"
                                 THEN <<sl.text>> \o rest.items ELSE <<>>]

\* Rope::lines, collected; checked tells a build with overflow checks from
\* one without
lines(self, checked) ==
    IF checked /\ len(self) < 1 THEN [fault |-> "overflow", items |-> <<>>]
    ELSE LET last_idx == wrapping_sub(len(self), 1)
         IN  lines_scan(self, line_ends(char_indices(self), last_idx), 0)

\* the text of a slice as a rope of its own
slice_to_rope(sl) == RopeFromStr(sl.text)

\* delete a range, then insert the removed text back where it was
delete_then_insert(self, start, end) ==
    LET d == delete(self, start, end, FALSE)
        sl == slice(self, start, end)
    IN  IF d.fault # "none" THEN d
        ELSE IF sl.fault # "none" THEN Fault(sl.fault, self)
        ELSE LET back == insert_rope(d.res, start, slice_to_rope(sl))
             IN  [back EXCEPT !.self = self]

RECURSIVE fold_prepend(_, _)
\* a fold that adds each item in front of the accumulator
fold_prepend(acc, items) ==
    IF items = <<>> THEN acc
    ELSE fold_prepend(append(RopeFromStr(Head(items)), acc).res, Tail(items))

\* FromIterator<String>, <&str>, <Rope>: fold(Rope::new(), |acc, x| acc + x)
RECURSIVE fold_append(_, _)
fold_append(acc, items) ==
    IF items = <<>> THEN acc
    ELSE fold_append(append(acc, RopeFromStr(Head(items))).res, Tail(items))

from_iter(items) == fold_append(RopeNew, items)

\* FromIterator<char>, <&char>: the characters are collected into a String
from_iter_chars(items) == RopeFromStr(Flatten(items))

\* an in-place call that computes the result and leaves the receiver as it was
in_place_dropped(ret) == ret

\* The in-place API: the same logic, and the result replaces the receiver's
\* root; a call that faults replaces nothing.
in_place(ret) == IF ret.fault = "none" THEN [ret EXCEPT !.self = ret.res] ELSE ret

\* an edit made in the shared root: every handle on the old root sees it
set_root_shared(rs, h, new) ==
    [g \in DOMAIN rs |-> IF rs[g].root = rs[h].root THEN new ELSE rs[g]]

\* The rope behind handle h is replaced; every other handle keeps its root.
set_root(rs, h, new) == [rs EXCEPT ![h] = new]

----------------------------------------------------------------------------
(* The state machine: a receiver r, an argument rope x and a clone c of r. *)
(* A run is a sequence of in-place edits of r, which build ropes of many   *)
(* shapes, ended by one call of the persistent API or one comparison.      *)
(* left_edits is the number of edits the run may still make and cap the    *)
(* longest rope it may build.                                              *)

Handles == {"r", "x", "c"}

PersistentOps == {"insert", "insert_rope", "insert_str", "append", "prepend",
                  "delete", "split"}
InPlaceOps == {"insert_mut", "insert_rope_mut", "insert_str_mut", "append_mut",
               "prepend_mut", "delete_mut"}

R == ropes["r"]
X == ropes["x"]
C == ropes["c"]

\* indices handed to an operation: every offset of the receiver and one past
Indices == 0..(len(R) + 1)

\* the two builds of delete differ only when start > end
Builds(i, j) == IF i > j THEN BOOLEAN ELSE {FALSE}

NoOut == [op |-> "init", fault |-> "none", i |-> 0, j |-> 0,
          self0 |-> <<>>, arg0 |-> <<>>, x0 |-> <<>>,
          res |-> RopeNew, res2 |-> RopeNew, flag |-> FALSE, items |-> <<>>]

NoChain == [i |-> 0, n |-> 0]

\* r and x are built from strings, c is a clone of r
Start(rs, xs, edits, maxlen) ==
    /\ \E s \in rs, a \in xs :
          ropes = [h \in Handles |->
                     IF h = "x" THEN RopeFromStr(a) ELSE clone(RopeFromStr(s))]
    /\ snap = bytes(R)
    /\ out = NoOut
    /\ chain = NoChain
    /\ left_edits = edits
    /\ cap = maxlen
    /\ pc = "edit"

Init == Start(Strs, Strs, MaxSteps, MaxLen)

\* One call of the persistent API on the receiver r: ret is what the call
\* came to, argb the bytes of its argument.
Call(op, ret, i, j, argb) ==
    /\ pc = "edit"
    /\ ropes' = set_root(ropes, "r", ret.self)
    /\ out' = [op |-> op, fault |-> ret.fault, i |-> i, j |-> j,
               self0 |-> bytes(R), arg0 |-> argb, x0 |-> bytes(X),
               res |-> ret.res, res2 |-> ret.res2, flag |-> FALSE,
               items |-> <<>>]
    /\ pc' = "done"
    /\ UNCHANGED <<snap, chain, left_edits, cap>>

\* One call of the in-place API on the receiver r.
Edit(op, ret) ==
    /\ pc = "edit"
    /\ left_edits > 0
    /\ ropes' = set_root(ropes, "r", ret.self)
    /\ out' = [NoOut EXCEPT !.op = op, !.fault = ret.fault]
    /\ left_edits' = left_edits - 1
    /\ UNCHANGED <<snap, cap, pc>>

Fits(n) == len(R) + n <= cap

DoAppend == Call("append", append(R, X), 0, 0, bytes(X))

DoPrepend == Call("prepend", prepend(R, X), 0, 0, bytes(X))

DoInsertRope ==
    \E i \in Indices : Call("insert_rope", insert_rope(R, i, X), i, 0, bytes(X))

DoInsert ==
    \E i \in Indices, ch \in Chars : Call("insert", insert(R, i, ch), i, 0, ch)

DoInsertStr ==
    \E i \in Indices, s \in Strs :
        Call("insert_str", insert_str(R, i, s), i, 0, s)

DoDelete ==
    \E i \in Indices, j \in Indices : \E unstable \in Builds(i, j) :
        Call("delete", delete(R, i, j, unstable), i, j, <<>>)

DoSplit == \E i \in Indices : Call("split", split(R, i), i, 0, <<>>)

\* r.delete(i..j) followed by the insertion of r.slice(i..j) at i
DoDeleteThenInsert ==
    \E i \in Indices, j \in Indices :
        Call("delete_then_insert", delete_then_insert(R, i, j), i, j, <<>>)

DoAppendMut ==
    /\ Fits(len(X))
    /\ Edit("append_mut", in_place(append(R, X)))
    /\ chain' = NoChain

DoPrependMut ==
    /\ Fits(len(X))
    /\ Edit("prepend_mut", in_place(prepend(R, X)))
    /\ chain' = NoChain

\* chain counts the successive in-place insertions of x at one index
DoInsertRopeMut ==
    /\ Fits(len(X))
    /\ \E i \in Indices :
          /\ Edit("insert_rope_mut", in_place(insert_rope(R, i, X)))
          /\ chain' = [i |-> i, n |-> IF chain.n > 0 /\ chain.i = i
                                       THEN chain.n + 1 ELSE 1]

DoInsertMut ==
    /\ \E i \in Indices, ch \in Chars :
          Fits(Len(ch)) /\ Edit("insert_mut", in_place(insert(R, i, ch)))
    /\ chain' = NoChain

DoInsertStrMut ==
    /\ \E i \in Indices, s \in Strs :
          Fits(Len(s)) /\ Edit("insert_str_mut", in_place(insert_str(R, i, s)))
    /\ chain' = NoChain

DoDeleteMut ==
    /\ \E i \in Indices, j \in Indices : \E unstable \in Builds(i, j) :
          Edit("delete_mut", in_place(delete(R, i, j, unstable)))
    /\ chain' = NoChain

\* let r = items.into_iter().collect(), in place of the construction of r
\* from a string
DoCollect ==
    /\ out.op = "init"
    /\ \E items \in SeqsUpTo(Chars, MaxItems) :
          /\ Len(Flatten(items)) <= cap
          /\ Edit("collect", in_place(Ok(R, from_iter(items))))
    /\ chain' = NoChain

\* let c = r.clone()
DoClone ==
    /\ pc = "edit"
    /\ left_edits > 0
    /\ ropes' = set_root(ropes, "c", clone(R))
    /\ snap' = bytes(R)
    /\ out' = [NoOut EXCEPT !.op = "clone"]
    /\ left_edits' = left_edits - 1
    /\ UNCHANGED <<chain, cap, pc>>

\* r.rebalance()
DoRebalance ==
    /\ pc = "edit"
    /\ ropes' = set_root(ropes, "r", rebalance(R))
    /\ out' = [NoOut EXCEPT !.op = "rebalance", !.self0 = bytes(R)]
    /\ pc' = "done"
    /\ UNCHANGED <<snap, chain, left_edits, cap>>

\* the balancer rebuilds the tree of r, whatever its balance, under a
\* coalescing threshold t
DoRebuild ==
    /\ pc = "edit"
    /\ \E t \in 0..MaxCoalesce :
          out' = [NoOut EXCEPT !.op = "rebuild", !.self0 = bytes(R),
                               !.i = Len(coalesce(strings(R.root), t)),
                               !.j = t,
                               !.res = [root |-> node_rebuild(R.root, t)]]
    /\ pc' = "done"
    /\ UNCHANGED <<ropes, snap, chain, left_edits, cap>>

\* r == x
DoEq ==
    /\ pc = "edit"
    /\ out' = [NoOut EXCEPT !.op = "eq", !.flag = eq(R, X)]
    /\ pc' = "done"
    /\ UNCHANGED <<ropes, snap, chain, left_edits, cap>>

\* r.char_indices().collect()
DoCharIndices ==
    /\ pc = "edit"
    /\ out' = [NoOut EXCEPT !.op = "char_indices", !.self0 = bytes(R),
                            !.items = char_indices(R)]
    /\ pc' = "done"
    /\ UNCHANGED <<ropes, snap, chain, left_edits, cap>>

\* &r[i]
DoIndex ==
    /\ pc = "edit"
    /\ \E i \in Indices :
          LET got == rope_index(R, i)
          IN  out' = [NoOut EXCEPT !.op = "index", !.fault = got.fault,
                                  !.i = i, !.self0 = bytes(R),
                                  !.arg0 = got.text]
    /\ pc' = "done"
    /\ UNCHANGED <<ropes, snap, chain, left_edits, cap>>

\* r.slice(i..j), read by character
DoSlice ==
    /\ pc = "edit"
    /\ \E i \in Indices, j \in Indices :
          LET sl == slice(R, i, j)
          IN  out' = [NoOut EXCEPT !.op = "slice", !.fault = sl.fault,
                                  !.i = i, !.j = j, !.self0 = bytes(R),
                                  !.arg0 = sl.text,
                                  !.items = slice_char_indices(sl)]
    /\ pc' = "done"
    /\ UNCHANGED <<ropes, snap, chain, left_edits, cap>>

\* r.lines().collect(); the two builds differ only on the empty rope
DoLines ==
    /\ pc = "edit"
    /\ \E checked \in (IF len(R) = 0 THEN BOOLEAN ELSE {FALSE}) :
          LET got == lines(R, checked)
          IN  out' = [NoOut EXCEPT !.op = "lines", !.fault = got.fault,
                                  !.self0 = bytes(R), !.flag = checked,
                                  !.items = got.items]
    /\ pc' = "done"
    /\ UNCHANGED <<ropes, snap, chain, left_edits, cap>>

\* r.bytes(), r.chars() or r.split_whitespace(), collected
DoIterate ==
    /\ pc = "edit"
    /\ \E which \in {"bytes", "chars", "split_whitespace"} :
          out' = [NoOut EXCEPT !.op = which, !.self0 = bytes(R),
                               !.items = IF which = "bytes" THEN bytes(R)
                                         ELSE IF which = "chars" THEN chars(R)
                                         ELSE split_whitespace(R)]
    /\ pc' = "done"
    /\ UNCHANGED <<ropes, snap, chain, left_edits, cap>>

\* items.into_iter().collect::<Rope>(), of characters or of strings
DoFromIter ==
    /\ pc = "edit"
    /\ out.op = "init"
    /\ \/ \E items \in SeqsUpTo(Chars, MaxFrags) :
             out' = [NoOut EXCEPT !.op = "collect_chars", !.items = items,
                                  !.res = from_iter_chars(items)]
       \/ \E items \in SeqsUpTo(Strs, MaxFrags) :
             out' = [NoOut EXCEPT !.op = "collect_strs", !.items = items,
                                  !.res = from_iter(items)]
    /\ pc' = "done"
    /\ UNCHANGED <<ropes, snap, chain, left_edits, cap>>

\* every edit of the in-place API, and the clone
Next ==
    \/ DoAppendMut \/ DoPrependMut \/ DoInsertRopeMut \/ DoInsertMut
    \/ DoInsertStrMut \/ DoDeleteMut \/ DoClone
    \/ DoAppend \/ DoPrepend \/ DoInsertRope \/ DoSplit \/ DoEq
    \/ DoCharIndices \/ DoIndex

Spec == Init /\ [][Next]_vars

\* ropes built by insertions of x, and every call of the persistent API
NextAll ==
    \/ DoAppendMut \/ DoPrependMut \/ DoInsertRopeMut
    \/ DoAppend \/ DoPrepend \/ DoInsertRope \/ DoInsert \/ DoInsertStr
    \/ DoDelete \/ DoSplit \/ DoDeleteThenInsert \/ DoSlice \/ DoFromIter

SpecAll == Init /\ [][NextAll]_vars

\* long one-sided runs of small insertions
InitBal == Start(Chars, Chars, MaxBalSteps, MaxBalLen)

NextBal ==
    \/ DoCollect \/ DoAppendMut \/ DoPrependMut \/ DoInsertRopeMut
    \/ DoSplit \/ DoDelete \/ DoRebalance
    \/ DoAppend \/ DoPrepend \/ DoInsertRope \/ DoRebuild

SpecBal == InitBal /\ [][NextBal]_vars

\* ropes of text that holds line endings, read by the iterators
IterStrs == {<<>>, CharA, CharE, CharNl}
IterArgs == {CharA, CharNl}

InitIter == Start(IterStrs, IterArgs, MaxIterSteps, MaxIterLen)

NextIter ==
    \/ DoAppendMut \/ DoPrependMut \/ DoInsertRopeMut
    \/ DoSplit \/ DoLines \/ DoIterate

SpecIter == InitIter /\ [][NextIter]_vars

----------------------------------------------------------------------------
(* The claims *)

Before(s, i) == SubSeq(s, 1, i)
After(s, i) == SubSeq(s, i + 1, Len(s))
leaves(self) == Len(strings(self.root))

\* C1: split at an index i <= len(r) on a character boundary returns
\* (left, right) with left of length exactly i and the bytes of left
\* followed by the bytes of right equal to the bytes of r.
C1_SplitRoundTrip ==
    (/\ out.op = "split"
     /\ out.i <= Len(out.self0)
     /\ is_char_boundary(out.self0, out.i))
    => /\ out.fault = "none"
       /\ len(out.res) = out.i
       /\ Len(bytes(out.res)) = out.i
       /\ bytes(out.res) \o bytes(out.res2) = out.self0

\* a split strictly inside one subtree of a branch whose text holds a
\* two-byte character
C1_Witness ==
    /\ out.op = "split"
    /\ out.fault = "none"
    /\ is_branch(R.root)
    /\ 0 < out.i /\ out.i < len(R) /\ out.i # weight(R.root)
    /\ \E k \in 1..Len(out.self0) : out.self0[k] = ByteCont

\* C2 as stated: for every index 0 <= i <= len(r) and non-empty x,
\* insert_rope(r, i, x) returns r[0..i] x r[i..len(r)].
C2_AsStated ==
    (/\ out.op = "insert_rope"
     /\ out.arg0 # <<>>
     /\ out.i <= Len(out.self0))
    => /\ out.fault = "none"
       /\ bytes(out.res) = Before(out.self0, out.i) \o out.arg0 \o After(out.self0, out.i)

\* C2 amended: for every index 0 <= i <= len(r) on a character boundary and
\* non-empty x, insert_rope(r, i, x) returns r[0..i] x r[i..len(r)], also
\* when r was built by insertions at the same index.
C2_InsertRope ==
    (/\ out.op = "insert_rope"
     /\ out.arg0 # <<>>
     /\ out.i <= Len(out.self0)
     /\ is_char_boundary(out.self0, out.i))
    => /\ out.fault = "none"
       /\ bytes(out.res) = Before(out.self0, out.i) \o out.arg0 \o After(out.self0, out.i)

\* the third insertion of a non-empty x at one interior index
C2_Witness ==
    /\ out.op = "insert_rope"
    /\ out.fault = "none"
    /\ out.arg0 # <<>>
    /\ chain.n >= 2 /\ chain.i = out.i
    /\ 0 < out.i /\ out.i < Len(out.self0)
    /\ leaves(R) >= 3

\* C3 as stated: for every range 0 <= s <= e <= len(r), delete(r, s..e)
\* returns r[0..s] r[e..len(r)], and an empty range returns a rope equal to r.
C3_AsStated ==
    (/\ out.op = "delete"
     /\ out.i <= out.j
     /\ out.j <= Len(out.self0))
    => /\ out.fault = "none"
       /\ bytes(out.res) = Before(out.self0, out.i) \o After(out.self0, out.j)
       /\ out.i = out.j => eq(out.res, R)

\* C3 amended: for every range 0 <= s <= e <= len(r) with s and e on
\* character boundaries, delete(r, s..e) returns r[0..s] r[e..len(r)], and an
\* empty range returns a rope equal to r.
C3_Delete ==
    (/\ out.op = "delete"
     /\ out.i <= out.j
     /\ out.j <= Len(out.self0)
     /\ is_char_boundary(out.self0, out.i)
     /\ is_char_boundary(out.self0, out.j))
    => /\ out.fault = "none"
       /\ bytes(out.res) = Before(out.self0, out.i) \o After(out.self0, out.j)
       /\ out.i = out.j => eq(out.res, R)

\* a non-empty range strictly inside a rope of several leaves is deleted
C3_Witness ==
    /\ out.op = "delete"
    /\ out.fault = "none"
    /\ 0 < out.i /\ out.i < out.j /\ out.j < Len(out.self0)
    /\ leaves(R) >= 3
    /\ bytes(out.res) # out.self0

\* C4: a call of the persistent API leaves the bytes of the receiver and of
\* the argument rope as they were before the call.
C4_ReceiverUnchanged ==
    out.op \in PersistentOps
    => /\ bytes(R) = out.self0
       /\ bytes(X) = out.x0

\* a persistent call returned a rope that differs from its receiver
C4_Witness ==
    /\ out.op \in PersistentOps
    /\ out.fault = "none"
    /\ bytes(out.res) # out.self0
    /\ out.self0 # <<>>
    /\ bytes(R) = out.self0

\* C5: the clone c keeps the bytes r had when the clone was taken, whatever
\* in-place edits r goes through afterwards.
C5_CloneUnchanged == bytes(C) = snap

\* r was edited in place after the clone was taken and now differs from it
C5_Witness ==
    /\ out.op \in InPlaceOps
    /\ out.fault = "none"
    /\ left_edits = 0
    /\ bytes(R) # snap
    /\ bytes(C) = snap
    /\ snap # <<>>

\* C6: r == x exactly when r and x hold the same bytes.
C6_Equality == out.op = "eq" => (out.flag <=> bytes(R) = bytes(X))

\* a rope of several leaves equals a single leaf with the same bytes
C6_Witness ==
    /\ out.op = "eq"
    /\ out.flag
    /\ is_branch(R.root)
    /\ is_leaf(X.root)

C8_AlwaysBalanced ==
    /\ \A h \in Handles : is_balanced(ropes[h])
    /\ is_balanced(out.res)
    /\ is_balanced(out.res2)

\* four insertions in a row at one interior index
C8_Witness ==
    /\ chain.n >= 4
    /\ 0 < chain.i /\ chain.i < len(R)
    /\ leaves(R) >= 5
    /\ out.op = "insert_rope_mut"
    /\ out.fault = "none"

\* C9: insert_rope(r, 0, x) has the bytes of append(x, r) and
\* insert_rope(r, len(r), x) has the bytes of append(r, x).
C9_InsertAtEnds ==
    out.op = "insert_rope"
    => /\ out.i = 0 =>
            /\ out.fault = "none"
            /\ bytes(out.res) = bytes(append(X, R).res)
       /\ out.i = len(R) =>
            /\ out.fault = "none"
            /\ bytes(out.res) = bytes(append(R, X).res)

\* a rope is inserted at index 0 = len(r) of the empty rope
C9_Witness ==
    /\ out.op = "insert_rope"
    /\ out.i = 0
    /\ is_empty(R)
    /\ ~is_empty(X)
    /\ bytes(out.res) = bytes(X)

\* C10 as stated: for every range 0 <= s <= e <= len(r), deleting s..e and
\* inserting slice(r, s..e) back at s gives the bytes of r.
C10_AsStated ==
    (/\ out.op = "delete_then_insert"
     /\ out.i <= out.j
     /\ out.j <= Len(out.self0))
    => /\ out.fault = "none"
       /\ bytes(out.res) = out.self0

\* C10 amended: for every range 0 <= s <= e <= len(r) with s and e on
\* character boundaries, deleting s..e and inserting slice(r, s..e) back at
\* s gives the bytes of r.
C10_DeleteInsert ==
    (/\ out.op = "delete_then_insert"
     /\ out.i <= out.j
     /\ out.j <= Len(out.self0)
     /\ is_char_boundary(out.self0, out.i)
     /\ is_char_boundary(out.self0, out.j))
    => /\ out.fault = "none"
       /\ bytes(out.res) = out.self0

\* a non-empty interior range of a rope of several leaves is deleted and put
\* back
C10_Witness ==
    /\ out.op = "delete_then_insert"
    /\ out.fault = "none"
    /\ 0 < out.i /\ out.i < out.j /\ out.j < Len(out.self0)
    /\ leaves(R) >= 2
    /\ strings(out.res.root) # strings(R.root)

\* offset i falls strictly inside a character of s
InsideChar(s, i) == i < Len(s) /\ ~is_char_boundary(s, i)

\* s is a sequence of whole characters
WholeChars(s) ==
    \A k \in 1..Len(s) :
        /\ s[k] = ByteLead => k < Len(s) /\ s[k + 1] = ByteCont
        /\ s[k] = ByteCont => k > 1 /\ s[k - 1] = ByteLead

\* C11 as stated: delete(range) with range.start > range.end fails with an
\* order fault, from an explicit start <= end check, in every build.
C11_AsStated ==
    (out.op = "delete" /\ out.i > out.j) => out.fault = "order"

\* C12: delete(range) fails, and returns no rope, whenever range.start or
\* range.end is greater than the length of the rope.
C12_DeleteBounds ==
    (/\ out.op = "delete"
     /\ out.i > Len(out.self0) \/ out.j > Len(out.self0))
    => /\ out.fault # "none"
       /\ out.res = RopeNew

\* a range that starts inside a rope of several leaves and ends past it
C12_Witness ==
    /\ out.op = "delete"
    /\ 0 < out.i /\ out.i < Len(out.self0) /\ out.j > Len(out.self0)
    /\ is_branch(R.root)
    /\ out.fault = "bounds"

\* C13: insert, insert_str and split fail with a bounds fault whenever
\* index > measure(self), and return for every index <= measure(self) on a
\* character boundary, index = measure(self) included.
C13_IndexBounds ==
    out.op \in {"insert", "insert_str", "split"}
    => /\ out.i > Len(out.self0) => out.fault = "bounds"
       /\ (out.i <= Len(out.self0) /\ is_char_boundary(out.self0, out.i))
              => out.fault = "none"

\* a character is inserted at index = measure(self) of a non-empty rope
C13_Witness ==
    /\ out.op = "insert"
    /\ out.i = Len(out.self0)
    /\ out.i > 0
    /\ out.fault = "none"
    /\ bytes(out.res) = out.self0 \o out.arg0

\* C14: insert_rope(index, rope) with a non-empty rope and an index greater
\* than the length of the receiver fails and returns no rope.
C14_InsertRopeBounds ==
    (/\ out.op = "insert_rope"
     /\ out.arg0 # <<>>
     /\ out.i > Len(out.self0))
    => /\ out.fault = "bounds"
       /\ out.res = RopeNew

\* a non-empty rope is inserted one past the end of a rope of several leaves
C14_Witness ==
    /\ out.op = "insert_rope"
    /\ out.arg0 # <<>>
    /\ out.i = Len(out.self0) + 1
    /\ is_branch(R.root)
    /\ out.fault = "bounds"

\* C15: split, insert, insert_str, insert_rope and delete at an offset
\* strictly inside a multi-byte character fail with a boundary fault, and no
\* rope holds a leaf whose text is cut in the middle of a character.
C15_BoundaryFault ==
    /\ (out.op \in {"split", "insert"} /\ InsideChar(out.self0, out.i))
           => out.fault = "boundary"
    /\ (/\ out.op \in {"insert_str", "insert_rope"}
        /\ out.arg0 # <<>>
        /\ InsideChar(out.self0, out.i))
           => out.fault = "boundary"
    /\ (/\ out.op = "delete"
        /\ out.i <= out.j /\ out.j <= Len(out.self0)
        /\ InsideChar(out.self0, out.i) \/ InsideChar(out.self0, out.j))
           => out.fault = "boundary"
    /\ \A rope \in {R, X, C, out.res, out.res2} :
           \A k \in 1..leaves(rope) : WholeChars(strings(rope.root)[k])

\* a split inside a two-byte character held by the right subtree of a branch
C15_Witness ==
    /\ out.op = "split"
    /\ is_branch(R.root)
    /\ out.i > weight(R.root)
    /\ InsideChar(out.self0, out.i)
    /\ out.fault = "boundary"

\* C16 as stated: char_indices() of a rope yields the (byte offset,
\* character) pairs of char_indices() of its whole text, each offset being
\* the position of the character in the rope.
C16_AsStated ==
    out.op = "char_indices" => out.items = str_char_indices(out.self0)

C18_SliceFaults ==
    out.op = "slice"
    => /\ (\/ out.i > Len(out.self0) \/ out.j > Len(out.self0)
           \/ InsideChar(out.self0, out.i) \/ InsideChar(out.self0, out.j))
              => out.fault # "none" /\ out.arg0 = <<>>
       /\ out.fault = "none"
              => out.j <= Len(out.self0) /\ Len(out.arg0) = out.j - out.i

\* a slice of a rope of several leaves that starts within it and ends past it
C18_Witness ==
    /\ out.op = "slice"
    /\ is_branch(R.root)
    /\ 0 < out.i /\ out.i < Len(out.self0) /\ out.j > Len(out.self0)
    /\ is_char_boundary(out.self0, out.i)
    /\ out.fault = "bounds"

C20_Collect ==
    out.op \in {"collect_chars", "collect_strs"}
    => /\ bytes(out.res) = Flatten(out.items)
       /\ out.items = <<>> => out.res = RopeNew
       /\ out.op = "collect_strs"
              => out.res = from_iter(SelectSeq(out.items, LAMBDA s : s # <<>>))

\* three strings are collected, the middle one empty and the others not
C20_Witness ==
    /\ out.op = "collect_strs"
    /\ Len(out.items) = 3
    /\ out.items[1] # <<>> /\ out.items[2] = <<>> /\ out.items[3] # <<>>
    /\ out.items[1] # out.items[3]
    /\ bytes(out.res) = out.items[1] \o out.items[3]

C22_AsStated ==
    (/\ out.op = "index"
     /\ out.i < Len(out.self0)
     /\ out.self0[out.i + 1] = ByteA)
    => /\ out.fault = "none"
       /\ out.arg0 = CharA

RECURSIVE NoEmptyChild(_)
\* no leaf of n holds the empty string and no branch of n has an Empty child
NoEmptyChild(n) ==
    IF is_leaf(n) THEN leaf_text(n) # <<>>
    ELSE IF is_branch(n)
         THEN /\ left(n) # empty /\ right(n) # empty
              /\ NoEmptyChild(left(n)) /\ NoEmptyChild(right(n))
    ELSE TRUE

RECURSIVE CachedRight(_)
\* every branch of n caches, under each metric, the measure of its left
\* subtree, and the length of n is the sum of the lengths of its leaves
CachedRight(n) ==
    /\ node_len(n) = Len(node_bytes(n))
    /\ is_branch(n) =>
          /\ \A m \in Metrics :
                weight_of(n, m) = str_measure(node_bytes(left(n)), m)
          /\ CachedRight(left(n)) /\ CachedRight(right(n))

RECURSIVE Pow2(_)
Pow2(k) == IF k = 0 THEN 1 ELSE 2 * Pow2(k - 1)

\* the least k with 2^k >= n
CeilLog2(n) == CHOOSE k \in 0..n : Pow2(k) >= n /\ \A j \in 0..(k - 1) : Pow2(j) < n

\* C25: the tree rebuilt from a sequence of n >= 1 leaves has depth exactly
\* ceil(log2(n)), for every n, powers of two or not.
C25_RebuildDepth ==
    (out.op = "rebuild" /\ out.i >= 1)
    => /\ leaves(out.res) = out.i
       /\ depth(out.res.root) = CeilLog2(out.i)

\* a tree of five leaves is rebuilt into another tree, of depth three
C25_Witness ==
    /\ out.op = "rebuild"
    /\ out.i = 5
    /\ out.res.root # R.root
    /\ depth(out.res.root) = 3

RECURSIVE Placed(_, _)
\* the branches of n, each with the byte span it covers when n starts at
\* offset lo
Placed(n, lo) ==
    IF ~is_branch(n) THEN {}
    ELSE {[node |-> n, lo |-> lo, hi |-> lo + node_len(n)]}
         \cup Placed(left(n), lo) \cup Placed(right(n), lo + weight(n))

RECURSIVE Subtrees(_)
Subtrees(n) ==
    IF is_branch(n) THEN {n} \cup Subtrees(left(n)) \cup Subtrees(right(n))
    ELSE {n}

SharingOps == {"split", "insert_rope", "delete", "append", "prepend"}

\* the span lo..hi of the receiver is off the path of the edit recorded in out
Untouched(lo, hi) ==
    IF out.op \in {"append", "prepend"} THEN TRUE
    ELSE IF out.op = "delete" THEN hi <= out.i \/ out.j <= lo
    ELSE hi <= out.i \/ out.i <= lo

\* every branch of the receiver off the edited path is a subtree of a result
SharesUntouched ==
    \A p \in Placed(R.root, 0) :
        Untouched(p.lo, p.hi)
        => p.node \in Subtrees(out.res.root) \cup Subtrees(out.res2.root)

\* the roots the edit recorded in out hands to Rope::from
BuiltRoots ==
    LET sp == node_split(R.root, out.i)
        spj == node_split(sp.r, out.j - out.i)
    IN  IF out.op = "append" \/ (out.op = "insert_rope" /\ out.i = len(R))
        THEN {concatenate(R.root, X.root)}
        ELSE IF out.op = "prepend" \/ (out.op = "insert_rope" /\ out.i = 0)
        THEN {concatenate(X.root, R.root)}
        ELSE IF out.op = "insert_rope"
        THEN {concatenate(concatenate(sp.l, X.root), sp.r)}
        ELSE IF out.op = "split" THEN {sp.l, sp.r}
        ELSE {new_branch(sp.l, spj.r)}

C27_RebalanceKeepsText ==
    /\ out.op = "rebalance" => bytes(R) = out.self0
    /\ out.op = "rebuild" => bytes(out.res) = out.self0
    /\ (out.op = "append" /\ out.fault = "none")
       => bytes(out.res) = node_bytes(concatenate(R.root, X.root))

\* an append whose concatenation is out of balance and is rebuilt into
\* another tree over five leaves or more
C27_Witness ==
    /\ out.op = "append"
    /\ out.fault = "none"
    /\ ~node_is_balanced(concatenate(R.root, X.root))
    /\ out.res.root # concatenate(R.root, X.root)
    /\ leaves(out.res) >= 5
    /\ \E k \in 1..Len(out.self0) : out.self0[k] = ByteCont

\* C28 as stated: lines() on the empty rope yields an empty sequence without
\* a fault, the last index len() - 1 never going below zero.
C28_AsStated ==
    (out.op = "lines" /\ out.self0 = <<>>)
    => /\ out.fault = "none"
       /\ out.items = <<>>

RECURSIVE str_lines(_)
\* the lines of s without their line endings; text after the last line
\* ending is a line of its own
str_lines(s) ==
    IF s = <<>> THEN <<>>
    ELSE LET nls == {k \in 1..Len(s) : s[k] = ByteNl}
         IN  IF nls = {} THEN <<s>>
             ELSE LET k == CHOOSE k \in nls : \A j \in nls : k <= j
                  IN  <<SubSeq(s, 1, k - 1)>> \o str_lines(SubSeq(s, k + 1, Len(s)))

\* C29 as stated: for every non-empty rope lines() yields one slice per
\* line, line endings excluded, the last slice running to the end of the
\* rope when the text does not end in a line ending, whatever the byte width
\* of the final character and the leaf fragmentation.
C29_AsStated ==
    (out.op = "lines" /\ out.self0 # <<>>)
    => /\ out.fault = "none"
       /\ out.items = str_lines(out.self0)

\* C30 as stated: bytes(), chars() and split_whitespace() yield what the
\* flattened text yields, whatever the leaf fragmentation, so a word that
\* spans a leaf boundary is yielded once, whole.
C30_AsStated ==
    /\ out.op = "bytes" => out.items = out.self0
    /\ out.op = "chars" => out.items = str_chars(out.self0)
    /\ out.op = "split_whitespace" => out.items = str_split_whitespace(out.self0)

====
